---- MODULE Spec2Model ----
(***************************************************************************)
(* Model of lengolf-invoice/app.py: the generate_invoice request handler   *)
(* (form validation, line-item parsing, totals, filename derivation, PDF   *)
(* write) and add_supplier.                                                *)
(*                                                                         *)
(* Text is a sequence of one-character strings, so that strip, split,      *)
(* int(), float(), re.match and re.sub are computed character by           *)
(* character as Python computes them.                                      *)
(*                                                                         *)
(* A float is a record [k, m, e]: k = "fin" is the decimal m / 10^e with   *)
(* e minimal, k = "inf" is m * infinity (m = 1 or -1), k = "nan" is NaN.   *)
(* The decimal is the value the binary64 float stands for; round(x, 2) is  *)
(* computed on the binary64 value itself (FlDir, SubDir).                  *)
(***************************************************************************)
EXTENDS Integers, Sequences, FiniteSets, TLC

VARIABLES
    suppliers,      \* rows of the suppliers table: [id, name]
    store,          \* files of PDF_FOLDER: set of [name, content]
    pc,             \* per request: "idle", "rendered", "done"
    form,           \* per request: request.form
    outcome,        \* per request: how generate_invoice ended
    invoice,        \* per request: <<>> or <<what was handed to render_template>>
    submitted,      \* number of generate_invoice requests received so far
    writes,         \* log of the write_pdf calls that succeeded, in order
    payload,        \* parsing specifications: a form payload
    variant,        \* parsing specifications: a second payload to compare with
    parsed,         \* <<>> or <<result of parsing payload>>
    parsed_variant, \* <<>> or <<result of parsing variant>>
    calc_in,        \* calculation specification: [amounts, tax_rate_str]
    calc_out,       \* <<>> or <<[subtotal, tax_rate, tax_amount, total]>>
    name_in,        \* filename specification: [supplier_name, invoice_number]
    name_out        \* <<>> or <<filename>>

vars == <<suppliers, store, pc, form, outcome, invoice, submitted, writes,
          payload, variant, parsed, parsed_variant, calc_in, calc_out,
          name_in, name_out>>

(***************************************************************************)
(* Bounds of the model.                                                    *)
(***************************************************************************)
MaxRows == 2        \* rows of a form payload in SpecParse
MaxEntries == 3     \* entries of a payload in SpecOrder
MaxItems == 2       \* line items in SpecCalc
MaxLen == 2         \* length of a generated name in SpecFilename
MaxSuppliers == 1   \* rows of the suppliers table
MaxSubmits == 2     \* generate_invoice requests received

(***************************************************************************)
(* Text                                                                    *)
(***************************************************************************)
Digits == <<"0", "1", "2", "3", "4", "5", "6", "7", "8", "9">>

IsDigit(c) == \E i \in 1..10 : Digits[i] = c

DigitVal(c) == (CHOOSE i \in 1..10 : Digits[i] = c) - 1

Whitespace == {" ", "\t", "\n", "\r"}

RECURSIVE LStrip(_, _)
LStrip(s, chars) ==
    IF s # <<>> /\ Head(s) \in chars THEN LStrip(Tail(s), chars) ELSE s

RECURSIVE RStrip(_, _)
RStrip(s, chars) ==
    IF s # <<>> /\ s[Len(s)] \in chars
    THEN RStrip(SubSeq(s, 1, Len(s) - 1), chars)
    ELSE s

\* str.strip() and str.strip(chars)
Strip(s, chars) == RStrip(LStrip(s, chars), chars)

\* str.startswith
StartsWith(s, prefix) ==
    Len(s) >= Len(prefix) /\ SubSeq(s, 1, Len(prefix)) = prefix

\* str.split(sep) for a one-character sep: the parts, in order
RECURSIVE Split(_, _)
Split(s, sep) ==
    IF \A i \in 1..Len(s) : s[i] # sep
    THEN <<s>>
    ELSE LET i == CHOOSE j \in 1..Len(s) :
                      s[j] = sep /\ \A l \in 1..(j - 1) : s[l] # sep
         IN  <<SubSeq(s, 1, i - 1)>> \o Split(SubSeq(s, i + 1, Len(s)), sep)

RECURSIVE DigitsValue(_)
DigitsValue(s) ==
    IF s = <<>> THEN 0
    ELSE 10 * DigitsValue(SubSeq(s, 1, Len(s) - 1)) + DigitVal(s[Len(s)])

AllDigits(s) == s # <<>> /\ \A i \in 1..Len(s) : IsDigit(s[i])

\* int(text): [ok |-> FALSE] stands for ValueError.  Surrounding whitespace and
\* one sign are accepted, then decimal digits only.
PyInt(text) ==
    LET t == Strip(text, Whitespace)
        signed == t # <<>> /\ Head(t) \in {"+", "-"}
        body == IF signed THEN Tail(t) ELSE t
    IN  IF AllDigits(body)
        THEN [ok |-> TRUE,
              val |-> IF signed /\ Head(t) = "-"
                      THEN 0 - DigitsValue(body) ELSE DigitsValue(body)]
        ELSE [ok |-> FALSE, val |-> 0]

(***************************************************************************)
(* Floats                                                                  *)
(***************************************************************************)
RECURSIVE Pow10(_)
Pow10(n) == IF n = 0 THEN 1 ELSE 10 * Pow10(n - 1)

RECURSIVE Norm(_, _)
Norm(m, e) ==
    IF m = 0 THEN [k |-> "fin", m |-> 0, e |-> 0]
    ELSE IF e > 0 /\ m % 10 = 0 THEN Norm(m \div 10, e - 1)
    ELSE [k |-> "fin", m |-> m, e |-> e]

NaN == [k |-> "nan", m |-> 0, e |-> 0]
Inf(sign) == [k |-> "inf", m |-> sign, e |-> 0]
Zero == Norm(0, 0)

Sign(n) == IF n > 0 THEN 1 ELSE IF n < 0 THEN -1 ELSE 0
Abs(n) == IF n < 0 THEN 0 - n ELSE n
Max(a, b) == IF a >= b THEN a ELSE b

T_nan == <<"n", "a", "n">>
T_inf == <<"i", "n", "f">>

\* float(text): [ok |-> FALSE] stands for ValueError.  Surrounding whitespace
\* and one sign are accepted, then "nan", "inf", or decimal digits with at most
\* one point and at least one digit.
PyFloat(text) ==
    LET t == Strip(text, Whitespace)
        signed == t # <<>> /\ Head(t) \in {"+", "-"}
        sign == IF signed /\ Head(t) = "-" THEN -1 ELSE 1
        body == IF signed THEN Tail(t) ELSE t
        parts == Split(body, ".")
        int_part == parts[1]
        frac_part == IF Len(parts) = 2 THEN parts[2] ELSE <<>>
        digits == int_part \o frac_part
    IN  IF body = T_nan THEN [ok |-> TRUE, val |-> NaN]
        ELSE IF body = T_inf THEN [ok |-> TRUE, val |-> Inf(sign)]
        ELSE IF Len(parts) <= 2 /\ AllDigits(digits)
        THEN [ok |-> TRUE,
              val |-> Norm(sign * DigitsValue(digits), Len(frac_part))]
        ELSE [ok |-> FALSE, val |-> Zero]

\* x > 0
Positive(x) == x.k # "nan" /\ x.m > 0

\* a + b
FAdd(a, b) ==
    IF a.k = "nan" \/ b.k = "nan" THEN NaN
    ELSE IF a.k = "inf" /\ b.k = "inf"
         THEN (IF a.m = b.m THEN a ELSE NaN)
    ELSE IF a.k = "inf" THEN a
    ELSE IF b.k = "inf" THEN b
    ELSE LET e == Max(a.e, b.e)
         IN  Norm(a.m * Pow10(e - a.e) + b.m * Pow10(e - b.e), e)

\* -a
FNeg(a) == [a EXCEPT !.m = 0 - a.m]

\* a - b
FSub(a, b) == FAdd(a, FNeg(b))

\* a * b
FMul(a, b) ==
    IF a.k = "nan" \/ b.k = "nan" THEN NaN
    ELSE IF a.k = "inf" \/ b.k = "inf"
         THEN (IF a.m = 0 \/ b.m = 0 THEN NaN ELSE Inf(Sign(a.m) * Sign(b.m)))
    ELSE Norm(a.m * b.m, a.e + b.e)

\* a / 100
FDiv100(a) == IF a.k = "fin" THEN Norm(a.m, a.e + 2) ELSE a

(***************************************************************************)
(* round(x, 2) on a binary64 float.  x is the nearest binary64 value to    *)
(* the decimal it stands for; Python's round returns the two-decimal value *)
(* nearest to x itself, and to the even one when x lies exactly halfway.   *)
(* So at a decimal half-cent the result is decided by the side of the      *)
(* decimal on which x lies, computed here by long division in base 2       *)
(* (binary64 keeps 53 significant bits, rounding to nearest, ties to even).*)
(***************************************************************************)
RECURSIVE BitLen(_)
BitLen(i) == IF i = 0 THEN 0 ELSE 1 + BitLen(i \div 2)

RECURSIVE LeadZeros(_, _)
LeadZeros(r, d) == IF r >= d THEN 0 ELSE 1 + LeadZeros(2 * r, d)

\* floor(log2(n / d)) for n, d > 0
Exp2(n, d) ==
    IF n \div d > 0 THEN BitLen(n \div d) - 1 ELSE 0 - LeadZeros(n % d, d)

\* steps binary digits of r / d: the remainder left and the last digit produced
RECURSIVE Shift(_, _, _, _)
Shift(r, d, steps, bit) ==
    IF steps = 0 THEN [r |-> r, bit |-> bit]
    ELSE Shift((2 * r) % d, d, steps - 1, (2 * r) \div d)

\* The side of n / d on which its nearest binary64 value lies: 1 above, -1
\* below, 0 when n / d is a binary64 value itself.
FlDir(n, d) ==
    LET E == 52 - Exp2(n, d)
        s == Shift(n % d, d, E, 0)
    IN  IF s.r = 0 THEN 0
        ELSE IF 2 * s.r < d THEN -1
        ELSE IF 2 * s.r > d THEN 1
        ELSE IF s.bit = 1 THEN 1 ELSE -1

RECURSIVE Pow5(_)
Pow5(n) == IF n = 0 THEN 1 ELSE 5 * Pow5(n - 1)

RECURSIVE Pow2(_)
Pow2(n) == IF n = 0 THEN 1 ELSE 2 * Pow2(n - 1)

\* A float whose decimal binary64 holds exactly: m / 10^e with 5^e dividing m
\* (the magnitudes of the model are far below 2^53).
BinaryExact(x) == x.k # "fin" \/ x.m % Pow5(x.e) = 0

\* v lies exactly halfway between two cents
HalfCent(v) == v.k = "fin" /\ v.e = 3 /\ Abs(v.m) % 10 = 5

\* round(x, 2) where x stands for the decimal v and dir is the side of |v| on
\* which |x| lies.  A non-finite x is returned as it is.
Round2(v, dir) ==
    IF v.k # "fin" \/ v.e <= 2 THEN v
    ELSE LET unit == Pow10(v.e - 2)
             lo == Abs(v.m) \div unit
             rem == Abs(v.m) % unit
             cents == IF 2 * rem < unit THEN lo
                      ELSE IF 2 * rem > unit THEN lo + 1
                      ELSE IF dir > 0 THEN lo + 1
                      ELSE IF dir < 0 THEN lo
                      ELSE IF lo % 2 = 0 THEN lo ELSE lo + 1
         IN  Norm(Sign(v.m) * cents, 2)

\* The number of cents of a float with at most two decimals
Cents(x) == x.m * Pow10(2 - x.e)

\* The side of |v| on which |s - t| computed in binary64 lies, for v the
\* decimal of s - t at a half-cent, s held exactly and t the binary64 value
\* nearest to a number of cents.  t = c/100 + eps with eps below half a unit in
\* the last place of t; the difference is rounded once more, to the 53 bits of
\* s - t.
SubDir(s, t, v) ==
    IF ~HalfCent(v) \/ Cents(t) % 25 = 0 THEN 0
    ELSE LET A == Abs(Cents(t))
             sig == Sign(v.m) * Sign(t.m)
             nT == Abs(v.m)
             dT == Pow10(v.e)
             E == 52 - Exp2(nT, dT)
             Et == 52 - Exp2(A, 100)
             gA == Shift(A % 100, 100, Et, 0).r
             w == IF 2 * gA < 100 THEN 0 - gA ELSE 100 - gA
             k == Et - E
             f == Shift(nT % dT, dT, E, 0)
             lhs == f.r * Pow2(k) - (dT \div 100) * sig * w
             rhs == (dT \div 2) * Pow2(k)
             up == IF lhs < rhs THEN FALSE
                   ELSE IF lhs > rhs THEN TRUE
                   ELSE f.bit = 1
         IN  IF E >= Et THEN Sign(0 - sig * w)
             ELSE IF up THEN 1
             ELSE IF f.r = 0 THEN 0 ELSE -1

\* The side of |q| on which the binary64 quotient (subtotal * tax_rate) / 100
\* lies, for q its decimal at a half-cent and the product held exactly.
QuotientDir(q) == IF HalfCent(q) THEN FlDir(Abs(q.m), Pow10(q.e)) ELSE 0

\* app.py 258-260: tax_amount and total
tax_amount_of(subtotal, tax_rate) ==
    LET q == FDiv100(FMul(subtotal, tax_rate))
    IN  Round2(q, QuotientDir(q))

total_of(subtotal, tax_amount) ==
    LET v == FSub(subtotal, tax_amount)
    IN  Round2(v, IF v.k = "fin" THEN SubDir(subtotal, tax_amount, v) ELSE 0)

\* The floats the two round() calls are applied to are the ones computed
\* above: at a half-cent, the operands are held exactly by binary64.
RoundingExact(subtotal, tax_rate) ==
    LET q == FDiv100(FMul(subtotal, tax_rate))
        t == Round2(q, QuotientDir(q))
        v == FSub(subtotal, t)
    IN  /\ HalfCent(q) => BinaryExact(subtotal) /\ BinaryExact(tax_rate)
        /\ HalfCent(v) => BinaryExact(subtotal)

(***************************************************************************)
(* generate_invoice, app.py 217-252: the line items of a form payload.     *)
(* A payload is request.form as it arrived: a sequence of [key, value]     *)
(* entries in payload order, a key possibly more than once.                *)
(***************************************************************************)
T_items_open == <<"i", "t", "e", "m", "s", "[">>
T_description == <<"d", "e", "s", "c", "r", "i", "p", "t", "i", "o", "n">>
T_amount == <<"a", "m", "o", "u", "n", "t">>

\* request.form.to_dict(flat=False): each key once, in the order of its first
\* entry, with the list of its values in payload order
RECURSIVE to_dict(_)
to_dict(p) ==
    IF p = <<>> THEN <<>>
    ELSE LET init == to_dict(SubSeq(p, 1, Len(p) - 1))
             last == p[Len(p)]
         IN  IF \E i \in 1..Len(init) : init[i].key = last.key
             THEN [i \in 1..Len(init) |->
                      IF init[i].key = last.key
                      THEN [init[i] EXCEPT !.values = @ \o <<last.value>>]
                      ELSE init[i]]
             ELSE init \o <<[key |-> last.key, values |-> <<last.value>>]>>

\* items_data[key]
Lookup(items_data, key) ==
    items_data[CHOOSE i \in 1..Len(items_data) : items_data[i].key = key].values

\* [k for k in items_data if k.startswith('items[')]
RECURSIVE startswith_items(_)
startswith_items(items_data) ==
    IF items_data = <<>> THEN <<>>
    ELSE (IF StartsWith(Head(items_data).key, T_items_open)
          THEN <<Head(items_data).key>> ELSE <<>>)
         \o startswith_items(Tail(items_data))

\* the sort key: int(x.split('[')[1].split(']')[0])
sort_key(x) == PyInt(Split(Split(x, "[")[2], "]")[1])

\* sorted(keys, key=...): stable, ascending
RECURSIVE sorted(_)
sorted(keys) ==
    IF keys = <<>> THEN <<>>
    ELSE LET init == sorted(SubSeq(keys, 1, Len(keys) - 1))
             x == keys[Len(keys)]
             n == Cardinality({i \in 1..Len(init) :
                                  sort_key(init[i]).val <= sort_key(x).val})
         IN  SubSeq(init, 1, n) \o <<x>> \o SubSeq(init, n + 1, Len(init))

RECURSIVE DigitRun(_)
DigitRun(s) ==
    IF s # <<>> /\ IsDigit(Head(s)) THEN 1 + DigitRun(Tail(s)) ELSE 0

\* re.match(r'items\[(\d+)\]\[(description|amount)\]', key): the match starts
\* at the start of the key and need not reach its end
match(key) ==
    LET rest == SubSeq(key, Len(T_items_open) + 1, Len(key))
        n == DigitRun(rest)
        after == SubSeq(rest, n + 1, Len(rest))
        field == IF StartsWith(after, <<"]", "[">> \o T_description \o <<"]">>)
                 THEN "description"
                 ELSE IF StartsWith(after, <<"]", "[">> \o T_amount \o <<"]">>)
                 THEN "amount"
                 ELSE "none"
    IN  IF StartsWith(key, T_items_open) /\ n > 0 /\ field # "none"
        THEN [ok |-> TRUE, idx |-> DigitsValue(SubSeq(rest, 1, n)),
              field |-> field]
        ELSE [ok |-> FALSE, idx |-> 0, field |-> "none"]

\* A variant of keep that also keeps an amount of zero
keep_zero_amount(current_item) ==
    /\ current_item # <<>>
    /\ current_item[1].description # <<>>
    /\ ~Positive(FNeg(current_item[1].amount))

\* app.py 235 and 250: the item in progress is kept
keep(current_item) ==
    /\ current_item # <<>>
    /\ current_item[1].description # <<>>
    /\ Positive(current_item[1].amount)

\* app.py 235-237 and 250-252
flush(st) ==
    IF keep(st.current_item)
    THEN [st EXCEPT !.line_items = @ \o st.current_item,
                    !.subtotal = FAdd(@, st.current_item[1].amount)]
    ELSE st

\* app.py 226-247: one pass of the loop body
loop_body(st, key, items_data) ==
    LET m == match(key)
        value == Strip(Lookup(items_data, key)[1], Whitespace)
        st1 == IF m.idx # st.current_idx
               THEN [flush(st) EXCEPT
                         !.current_item = <<[description |-> <<>>, amount |-> Zero]>>,
                         !.current_idx = m.idx]
               ELSE st
        amount == IF PyFloat(value).ok THEN PyFloat(value).val ELSE Zero
    IN  IF ~m.ok THEN st
        ELSE IF m.field = "description"
        THEN [st1 EXCEPT !.current_item[1].description = value]
        ELSE [st1 EXCEPT !.current_item[1].amount = amount]

RECURSIVE loop(_, _, _)
loop(st, item_keys, items_data) ==
    IF item_keys = <<>> THEN st
    ELSE loop(loop_body(st, Head(item_keys), items_data), Tail(item_keys),
              items_data)

\* app.py 218-252.  status "ValueError" is the exception int() raises inside
\* sorted(), which nothing catches.
parse_line_items(p) ==
    LET items_data == to_dict(p)
        keys == startswith_items(items_data)
        st0 == [line_items |-> <<>>, subtotal |-> Zero,
                current_item |-> <<>>, current_idx |-> -1]
        st == flush(loop(st0, sorted(keys), items_data))
    IN  IF \E i \in 1..Len(keys) : ~sort_key(keys[i]).ok
        THEN [status |-> "ValueError", line_items |-> <<>>, subtotal |-> Zero]
        ELSE [status |-> "ok", line_items |-> st.line_items,
              subtotal |-> st.subtotal]

(***************************************************************************)
(* Payloads of the parsing specifications.                                 *)
(***************************************************************************)
Key(index_text, field_text) ==
    T_items_open \o index_text \o <<"]", "[">> \o field_text \o <<"]">>

Entry(k, v) == [key |-> k, value |-> v]

T_Rent == <<"R", "e", "n", "t">>
T_abc == <<"a", "b", "c">>

\* The index texts of a form's rows, in ascending numeric order (and not in
\* the order of the texts: "10" sorts before "2" as a string).
IndexOrder == <<<<"0">>, <<"2">>, <<"1", "0">>>>
IndexTexts == {IndexOrder[i] : i \in 1..Len(IndexOrder)}

\* A field of a row: absent (<<>>) or present with a text
DescriptionOpts == {<<>>, <<<<" ">>>>, <<<<" ", "A", " ">>>>}
AmountOpts ==
    {<<>>, <<<<"1", "0", "0">>>>, <<<<"0">>>>, <<<<"0", ".", "0", "1">>>>,
     <<T_abc>>, <<<<"-", "5">>>>}

\* The entries of one row; the row of index 2 carries its amount first
RowEntries(index_text, d, a) ==
    LET de == [j \in 1..Len(d) |-> Entry(Key(index_text, T_description), d[j])]
        ae == [j \in 1..Len(a) |-> Entry(Key(index_text, T_amount), a[j])]
    IN  IF index_text = <<"2">> THEN ae \o de ELSE de \o ae

RowSet(index_text) ==
    {RowEntries(index_text, d, a) : d \in DescriptionOpts, a \in AmountOpts}

RECURSIVE PayloadsOver(_)
PayloadsOver(index_seq) ==
    IF index_seq = <<>> THEN {<<>>}
    ELSE {r \o rest : r \in RowSet(Head(index_seq)),
                      rest \in PayloadsOver(Tail(index_seq))}

\* Sequences of at most n elements of S
RECURSIVE SeqsUpTo(_, _)
SeqsUpTo(S, n) ==
    IF n = 0 THEN {<<>>}
    ELSE LET shorter == SeqsUpTo(S, n - 1)
         IN  shorter \cup {Append(q, x) : q \in shorter, x \in S}

Distinct(q) == \A i, j \in 1..Len(q) : i # j => q[i] # q[j]

\* The orders in which a payload lists its rows: neither is the numeric one
RowOrders == {<<<<"1", "0">>, <<"0">>, <<"2">>>>, <<<<"2">>, <<"1", "0">>, <<"0">>>>}

Position(q, x) == CHOOSE i \in 1..Len(q) : q[i] = x

InOrder(q, order) ==
    \A i, j \in 1..Len(q) :
        i < j => Position(order, q[i]) < Position(order, q[j])

\* Form payloads: up to MaxRows rows, each index text once
FormPayloads ==
    UNION {PayloadsOver(q) :
              q \in {r \in SeqsUpTo(IndexTexts, MaxRows) :
                        Distinct(r) /\ \E o \in RowOrders : InOrder(r, o)}}

InitOthers ==
    /\ suppliers = {} /\ store = {} /\ submitted = 0 /\ writes = <<>>
    /\ pc = <<>> /\ form = <<>> /\ outcome = <<>> /\ invoice = <<>>
    /\ calc_in = <<>> /\ calc_out = <<>> /\ name_in = <<>> /\ name_out = <<>>

InitParse ==
    /\ payload \in FormPayloads
    /\ variant = payload
    /\ parsed = <<>> /\ parsed_variant = <<>>
    /\ InitOthers

ParsePayload ==
    /\ parsed = <<>>
    /\ parsed' = <<parse_line_items(payload)>>
    /\ UNCHANGED <<suppliers, store, pc, form, outcome, invoice, submitted,
                   writes, payload, variant, parsed_variant, calc_in,
                   calc_out, name_in, name_out>>

ParseVariant ==
    /\ parsed_variant = <<>>
    /\ parsed_variant' = <<parse_line_items(variant)>>
    /\ UNCHANGED <<suppliers, store, pc, form, outcome, invoice, submitted,
                   writes, payload, variant, parsed, calc_in, calc_out,
                   name_in, name_out>>

NextParse == ParsePayload \/ ParseVariant

SpecParse == InitParse /\ [][ParsePayload]_vars

(***************************************************************************)
(* C1: what the parsing loop keeps.                                        *)
(***************************************************************************)
\* The items the row of one index text is worth: its description trimmed and
\* non-empty, its amount a number above zero
RowItems(p, index_text) ==
    {[description |-> Strip(p[i].value, Whitespace),
      amount |-> PyFloat(p[j].value).val] :
        <<i, j>> \in {x \in (1..Len(p)) \X (1..Len(p)) :
            /\ p[x[1]].key = Key(index_text, T_description)
            /\ p[x[2]].key = Key(index_text, T_amount)
            /\ Strip(p[x[1]].value, Whitespace) # <<>>
            /\ PyFloat(p[x[2]].value).ok
            /\ Positive(PyFloat(p[x[2]].value).val)}}

RECURSIVE ExpectedFrom(_, _)
ExpectedFrom(p, n) ==
    IF n > Len(IndexOrder) THEN <<>>
    ELSE (IF RowItems(p, IndexOrder[n]) = {} THEN <<>>
          ELSE <<CHOOSE it \in RowItems(p, IndexOrder[n]) : TRUE>>)
         \o ExpectedFrom(p, n + 1)

\* The expected line items: the valid rows in ascending numeric index order
ExpectedItems(p) == ExpectedFrom(p, 1)

\* C1: the parsing loop yields an item for an index if and only if its
\* description is non-empty after trimming and its amount parses to a number
\* above zero; every other row (no amount, no description, blank description,
\* unparseable amount, amount 0 or negative) yields none and fails nothing;
\* the last index is flushed under the same rule.
C1_LineItemsAreTheValidRows ==
    parsed # <<>> =>
        /\ parsed[1].status = "ok"
        /\ parsed[1].line_items = ExpectedItems(payload)

\* A payload whose row 0 has amount "0" (dropped) and whose last row, 2, has
\* amount "0.01" (kept by the final flush)
C1_Witness ==
    /\ parsed # <<>>
    /\ payload = RowEntries(<<"0">>, <<<<" ", "A", " ">>>>, <<<<"0">>>>)
                 \o RowEntries(<<"2">>, <<<<" ", "A", " ">>>>,
                               <<<<"0", ".", "0", "1">>>>)
    /\ parsed[1].line_items = <<[description |-> <<"A">>, amount |-> Norm(1, 2)]>>

(***************************************************************************)
(* C5: two orders of the same entries.                                     *)
(***************************************************************************)
OrderIndexTexts == {<<"0">>, <<"0", "0">>, <<"1">>}

OrderEntries ==
    {Entry(Key(t, T_description), <<"A">>) : t \in OrderIndexTexts}
    \cup {Entry(Key(t, T_amount), v) :
             t \in OrderIndexTexts,
             v \in {<<"1", "0", "0">>, <<"2", "0", "0">>}}

DistinctKeys(p) == \A i, j \in 1..Len(p) : i # j => p[i].key # p[j].key

\* p with its entries i and i + 1 exchanged
Swap(p, i) ==
    [j \in 1..Len(p) |-> IF j = i THEN p[i + 1] ELSE IF j = i + 1 THEN p[i] ELSE p[j]]

InitOrder ==
    /\ payload \in {p \in SeqsUpTo(OrderEntries, MaxEntries) :
                       Len(p) >= 2 /\ DistinctKeys(p)}
    /\ variant \in {Swap(payload, i) : i \in 1..(Len(payload) - 1)}
    /\ parsed = <<>> /\ parsed_variant = <<>>
    /\ InitOthers

SpecOrder == InitOrder /\ [][NextParse]_vars

\* C5: two payloads holding the same entries, each key once, in different
\* orders yield the same ordered line items.
C5_OrderOfEntriesIsIrrelevant ==
    parsed # <<>> /\ parsed_variant # <<>> => parsed = parsed_variant

(***************************************************************************)
(* C6: a field given twice for one index.                                  *)
(***************************************************************************)
DupEntries ==
    {Entry(Key(<<"0">>, T_description), v) : v \in {<<"A">>, <<"B">>}}
    \cup {Entry(Key(<<"0">>, T_amount), v) :
             v \in {<<"1", "0", "0">>, <<"2", "0", "0">>}}

InitDup ==
    /\ payload \in {p \in SeqsUpTo(DupEntries, MaxEntries + 1) : Len(p) >= 2}
    /\ variant = payload
    /\ parsed = <<>> /\ parsed_variant = <<>>
    /\ InitOthers

SpecDup == InitDup /\ [][ParsePayload]_vars

\* The value of the last entry of p with key k
LastValue(p, k) ==
    p[CHOOSE i \in 1..Len(p) :
          p[i].key = k /\ \A j \in (i + 1)..Len(p) : p[j].key # k].value

\* C6: when a field is given twice for one index, the line item carries the
\* value that comes last in payload order.
C6_LastValueWins ==
    parsed # <<>> /\ parsed[1].line_items # <<>> =>
        /\ parsed[1].line_items[1].amount =
               PyFloat(LastValue(payload, Key(<<"0">>, T_amount))).val
        /\ parsed[1].line_items[1].description =
               LastValue(payload, Key(<<"0">>, T_description))

(***************************************************************************)
(* C9: a key outside the pattern.                                          *)
(***************************************************************************)
T_qty == <<"q", "t", "y">>
T_notes == <<"n", "o", "t", "e", "s">>

JunkKeys ==
    {Key(T_abc, T_amount), Key(<<>>, T_description), Key(<<"-", "1">>, T_amount),
     Key(<<"1", ".", "5">>, T_amount), Key(<<" ", "3", " ">>, T_amount),
     Key(<<"0">>, T_qty), T_notes}

JunkBases ==
    PayloadsOver(<<<<"0">>>>)
    \cup {RowEntries(<<"2">>, <<T_Rent>>, <<<<"1", "0", "0">>>>) \o r :
              r \in PayloadsOver(<<<<"0">>>>)}

InsertAt(p, k, e) == SubSeq(p, 1, k) \o <<e>> \o SubSeq(p, k + 1, Len(p))

InitJunk ==
    /\ variant \in JunkBases
    /\ payload \in {InsertAt(variant, k, Entry(key, <<"5">>)) :
                       k \in 0..Len(variant), key \in JunkKeys}
    /\ parsed = <<>> /\ parsed_variant = <<>>
    /\ InitOthers

SpecJunk == InitJunk /\ [][NextParse]_vars

\* C9: a key that does not match items[<non-negative integer>][description|
\* amount] is skipped: the parse ends as it does without the key, with the
\* same line items and subtotal, and never fails.
C9_KeysOutsideThePatternAreIgnored ==
    parsed # <<>> /\ parsed_variant # <<>> =>
        parsed[1].status = "ok" /\ parsed = parsed_variant

(***************************************************************************)
(* generate_invoice, app.py 258-260, on the line items of accepted         *)
(* invoices: every row has a description and an amount above zero.         *)
(***************************************************************************)
CalcAmounts ==
    {<<"5", "0", "0">>, <<"1", "0", "0", "0">>, <<"1", "2", ".", "5">>,
     <<"1", "5", "0", ".", "5">>, <<"0", ".", "1", "2", "5">>, T_inf}

CalcRates == {<<"3", ".", "0", "0">>, <<"1">>, <<"0">>, <<"-", "1">>, T_nan}

\* The payload of a form whose rows 0, 1, ... carry the amounts
RECURSIVE RowsOf(_, _)
RowsOf(amounts, n) ==
    IF n > Len(amounts) THEN <<>>
    ELSE RowEntries(<<Digits[n]>>, <<T_Rent>>, <<amounts[n]>>)
         \o RowsOf(amounts, n + 1)

InitCalc ==
    /\ calc_in \in {[amounts |-> a, tax_rate_str |-> r] :
                       a \in SeqsUpTo(CalcAmounts, MaxItems) \ {<<>>},
                       r \in CalcRates}
    /\ calc_out = <<>>
    /\ suppliers = {} /\ store = {} /\ submitted = 0 /\ writes = <<>>
    /\ pc = <<>> /\ form = <<>> /\ outcome = <<>> /\ invoice = <<>>
    /\ payload = <<>> /\ variant = <<>> /\ parsed = <<>> /\ parsed_variant = <<>>
    /\ name_in = <<>> /\ name_out = <<>>

\* app.py 191 and 218-271 for a form that passes every validation
Calculate ==
    /\ calc_out = <<>>
    /\ LET items == parse_line_items(RowsOf(calc_in.amounts, 1))
           tax_rate == PyFloat(calc_in.tax_rate_str).val
           tax_amount == tax_amount_of(items.subtotal, tax_rate)
       IN  calc_out' = <<[items |-> items.line_items,
                          subtotal |-> items.subtotal,
                          tax_rate |-> tax_rate,
                          tax_amount |-> tax_amount,
                          total |-> total_of(items.subtotal, tax_amount)]>>
    /\ UNCHANGED <<suppliers, store, pc, form, outcome, invoice, submitted,
                   writes, payload, variant, parsed, parsed_variant, calc_in,
                   name_in, name_out>>

SpecCalc == InitCalc /\ [][Calculate]_vars

\* The rounding operators are applied where they are exact (see FlDir, SubDir)
CalcRoundingExact ==
    calc_out # <<>> => RoundingExact(calc_out[1].subtotal, calc_out[1].tax_rate)

RECURSIVE SumOf(_)
SumOf(amounts) ==
    IF amounts = <<>> THEN Zero
    ELSE FAdd(SumOf(SubSeq(amounts, 1, Len(amounts) - 1)),
              PyFloat(amounts[Len(amounts)]).val)

\* v rounded to two decimals, a half-cent away from zero
HalfUp(v) == Round2(v, 1)

\* v rounded to two decimals, a half-cent towards zero
HalfDown(v) == Round2(v, -1)

\* C3: on an invoice of finite amounts and rate, subtotal is the sum of the
\* amounts, tax_amount is subtotal * tax_rate / 100 rounded half-up to two
\* decimals, and total is subtotal - tax_amount rounded to two decimals.
C3_TaxIsRoundedHalfUp ==
    calc_out # <<>> /\ calc_out[1].subtotal.k = "fin"
                    /\ calc_out[1].tax_rate.k = "fin" =>
        LET c == calc_out[1]
            v == FSub(c.subtotal, c.tax_amount)
        IN  /\ c.subtotal = SumOf(calc_in.amounts)
            /\ c.tax_amount = HalfUp(FDiv100(FMul(c.subtotal, c.tax_rate)))
            /\ c.total \in {HalfUp(v), HalfDown(v)}

\* C4: on every accepted invoice tax_amount + total differs from subtotal by
\* at most 0.005, and by nothing when subtotal is a whole number of cents.
C4_RoundingLaw ==
    calc_out # <<>> =>
        LET c == calc_out[1]
            d == FSub(FAdd(c.tax_amount, c.total), c.subtotal)
        IN  /\ d.k = "fin"
            /\ Abs(d.m) * 1000 <= 5 * Pow10(d.e)
            /\ (c.subtotal.k = "fin" /\ c.subtotal.e <= 2) => d = Zero

\* The law of C4 on the invoices whose subtotal and tax rate are finite
RoundingLawOnFiniteValues ==
    calc_out # <<>> /\ calc_out[1].subtotal.k = "fin"
                    /\ calc_out[1].tax_rate.k = "fin" =>
        LET c == calc_out[1]
            d == FSub(FAdd(c.tax_amount, c.total), c.subtotal)
        IN  /\ d.k = "fin"
            /\ Abs(d.m) * 1000 <= 5 * Pow10(d.e)
            /\ (c.subtotal.e <= 2) => d = Zero

(***************************************************************************)
(* generate_invoice, app.py 284-286: the name of the PDF file.             *)
(***************************************************************************)
Lower == {"a", "b", "c", "d", "e", "f", "g", "h", "i", "j", "k", "l", "m",
          "n", "o", "p", "q", "r", "s", "t", "u", "v", "w", "x", "y", "z"}
Upper == {"A", "B", "C", "D", "E", "F", "G", "H", "I", "J", "K", "L", "M",
          "N", "O", "P", "Q", "R", "S", "T", "U", "V", "W", "X", "Y", "Z"}

\* a character the class [a-zA-Z0-9_.-] holds
InClass(c) == c \in Lower \/ c \in Upper \/ IsDigit(c) \/ c \in {"_", ".", "-"}

\* re.sub(r'[^a-zA-Z0-9_.-]', '_', s)
sub(s) == [i \in 1..Len(s) |-> IF InClass(s[i]) THEN s[i] ELSE "_"]

\* A variant of clean that trims nothing
clean_untrimmed(s) == sub(s)

\* re.sub(r'[^a-zA-Z0-9_.-]', '_', s).strip('_')
clean(s) == Strip(sub(s), {"_"})

T_LENGOLF_ == <<"L", "E", "N", "G", "O", "L", "F", "_">>
T__Inv_ == <<"_", "I", "n", "v", "_">>
T_pdf == <<".", "p", "d", "f">>

\* app.py 284-286
filename_of(supplier_name, invoice_number) ==
    T_LENGOLF_ \o clean(supplier_name) \o T__Inv_ \o clean(invoice_number)
    \o T_pdf

T_AcmeCo == <<"A", "c", "m", "e", " ", "&", " ", "C", "o", ".">>
T_2024_05 == <<"2", "0", "2", "4", "/", "0", "5">>

NameAlphabet == {"A", "_", ".", "-", "/"}

Names == SeqsUpTo(NameAlphabet, MaxLen) \cup {T_AcmeCo, T_2024_05}

InitFilename ==
    /\ name_in \in [supplier_name : Names, invoice_number : Names]
    /\ name_out = <<>>
    /\ suppliers = {} /\ store = {} /\ submitted = 0 /\ writes = <<>>
    /\ pc = <<>> /\ form = <<>> /\ outcome = <<>> /\ invoice = <<>>
    /\ payload = <<>> /\ variant = <<>> /\ parsed = <<>> /\ parsed_variant = <<>>
    /\ calc_in = <<>> /\ calc_out = <<>>

DeriveFilename ==
    /\ name_out = <<>>
    /\ name_out' = <<filename_of(name_in.supplier_name, name_in.invoice_number)>>
    /\ UNCHANGED <<suppliers, store, pc, form, outcome, invoice, submitted,
                   writes, payload, variant, parsed, parsed_variant, calc_in,
                   calc_out, name_in>>

SpecFilename == InitFilename /\ [][DeriveFilename]_vars

\* seg is s with every character outside the class replaced by "_" and the
\* "_" at both ends removed
IsSegmentOf(seg, s) ==
    /\ seg = <<>> \/ (seg[1] # "_" /\ seg[Len(seg)] # "_")
    /\ \E a \in 0..Len(s) :
          /\ a + Len(seg) <= Len(s)
          /\ \A i \in 1..Len(s) :
                LET c == IF InClass(s[i]) THEN s[i] ELSE "_"
                IN  IF i > a /\ i <= a + Len(seg) THEN seg[i - a] = c
                    ELSE c = "_"

\* The filename is LENGOLF_<supplier>_Inv_<number>.pdf with each segment
\* derived by the rule, and holds only characters of the class
FilenameRule ==
    name_out # <<>> =>
        LET f == name_out[1]
            start == Len(T_LENGOLF_)
            fixed == Len(T_LENGOLF_) + Len(T__Inv_) + Len(T_pdf)
        IN  /\ Len(f) >= fixed
            /\ \E n1 \in 0..(Len(f) - fixed) :
                  LET seg1 == SubSeq(f, start + 1, start + n1)
                      mid == start + n1 + Len(T__Inv_)
                      seg2 == SubSeq(f, mid + 1, Len(f) - Len(T_pdf))
                  IN  /\ f = T_LENGOLF_ \o seg1 \o T__Inv_ \o seg2 \o T_pdf
                      /\ IsSegmentOf(seg1, name_in.supplier_name)
                      /\ IsSegmentOf(seg2, name_in.invoice_number)
            /\ \A i \in 1..Len(f) : InClass(f[i]) /\ f[i] \notin {"/", "\\"}

IsExample == name_in = [supplier_name |-> T_AcmeCo, invoice_number |-> T_2024_05]

\* C7 as stated: the rule, and "Acme & Co." with "2024/05" gives
\* LENGOLF_Acme___Co_Inv_2024_05.pdf
C7_FilenameAsStated ==
    /\ FilenameRule
    /\ name_out # <<>> /\ IsExample =>
          name_out[1] = T_LENGOLF_ \o <<"A", "c", "m", "e", "_", "_", "_", "C", "o">>
                        \o T__Inv_ \o <<"2", "0", "2", "4", "_", "0", "5">> \o T_pdf

\* C7 amended: the rule, and "Acme & Co." with "2024/05" gives
\* LENGOLF_Acme___Co._Inv_2024_05.pdf: the final "." of the supplier name is a
\* character of the class and is kept.
C7_Filename ==
    /\ FilenameRule
    /\ name_out # <<>> /\ IsExample =>
          name_out[1] = T_LENGOLF_
                        \o <<"A", "c", "m", "e", "_", "_", "_", "C", "o", ".">>
                        \o T__Inv_ \o <<"2", "0", "2", "4", "_", "0", "5">> \o T_pdf

\* C7 witness: the filename of "Acme & Co." with "2024/05" was derived
C7_Witness == name_out # <<>> /\ IsExample

(***************************************************************************)
(* The application: add_supplier and generate_invoice requests served by   *)
(* threads that share the suppliers table and PDF_FOLDER.                  *)
(***************************************************************************)
Requests == {"t1", "t2"}

\* A variant of strptime that takes any text for the first of January 2024
strptime_lenient(text) == [ok |-> TRUE, y |-> 2024, m |-> 1, d |-> 1]

\* datetime.strptime(text, '%Y-%m-%d'): [ok |-> FALSE] stands for ValueError
LeapYear(y) == (y % 4 = 0 /\ y % 100 # 0) \/ y % 400 = 0

DaysIn(y, m) ==
    IF m = 2 THEN (IF LeapYear(y) THEN 29 ELSE 28)
    ELSE IF m \in {4, 6, 9, 11} THEN 30 ELSE 31

strptime(text) ==
    LET parts == Split(text, "-")
        y == DigitsValue(parts[1])
        m == DigitsValue(parts[2])
        d == DigitsValue(parts[3])
    IN  IF /\ Len(parts) = 3
           /\ \A i \in 1..3 : AllDigits(parts[i])
           /\ Len(parts[1]) = 4 /\ Len(parts[2]) <= 2 /\ Len(parts[3]) <= 2
           /\ y >= 1 /\ m \in 1..12 /\ d \in 1..DaysIn(y, m)
        THEN [ok |-> TRUE, y |-> y, m |-> m, d |-> d]
        ELSE [ok |-> FALSE, y |-> 0, m |-> 0, d |-> 0]

\* n written with at least width digits
RECURSIVE Padded(_, _)
Padded(n, width) ==
    IF width = 0 /\ n = 0 THEN <<>>
    ELSE Padded(n \div 10, Max(width - 1, 0)) \o <<Digits[(n % 10) + 1]>>

\* invoice_date.strftime('%d/%m/%Y')
strftime(date) ==
    Padded(date.d, 2) \o <<"/">> \o Padded(date.m, 2) \o <<"/">>
    \o Padded(date.y, 4)

\* app.py 198-199: the row of the suppliers table with this id, if any
fetchone(table, supplier_id) == {row \in table : row.id = supplier_id}

\* A variant of the test at app.py 254 that never rejects
no_line_items_never(items) == FALSE

\* app.py 254: not line_items
no_line_items(items) == items.line_items = <<>>

\* The value of an expression, named once
The(S) == CHOOSE x \in S : TRUE

\* A request that ends in a flashed error (or, for "error_500", in the
\* ValueError nothing catches): nothing is rendered and no file is named
rejected(error, ran) ==
    [outcome |-> error, steps |-> ran, rendered |-> <<>>, filename |-> <<>>]

\* app.py 259-287: totals, invoice_data, the rendered template, the filename
render(f, tax_rate, invoice_date, supplier, items, tax_amount) ==
    [outcome |-> "render",
     steps |-> <<"validate", "lookup", "parse", "totals", "render">>,
     rendered |-> <<[invoice_data |->
                        [invoice_number |-> f.invoice_number,
                         invoice_date_formatted |-> strftime(invoice_date),
                         items |-> items.line_items,
                         subtotal |-> items.subtotal,
                         tax_rate |-> tax_rate,
                         tax_amount |-> tax_amount,
                         total |-> total_of(items.subtotal, tax_amount)],
                     supplier |-> supplier.name]>>,
     filename |-> filename_of(supplier.name, f.invoice_number)]

\* app.py 176-287: generate_invoice up to the call of write_pdf.  steps lists
\* the stages that ran; outcome is "render" when the invoice was rendered and
\* the flashed error otherwise.
generate_invoice(f, table) ==
    The({IF \E x \in {f.supplier_id, f.invoice_number, f.invoice_date,
                      f.tax_rate} : x = <<>>
         THEN rejected("missing_fields", <<"validate">>)
         ELSE IF ~tax_rate.ok \/ ~invoice_date.ok
         THEN rejected("invalid_format", <<"validate">>)
         ELSE IF supplier = {}
         THEN rejected("supplier_not_found", <<"validate", "lookup">>)
         ELSE IF items.status = "ValueError"
         THEN rejected("error_500", <<"validate", "lookup", "parse">>)
         ELSE IF no_line_items(items)
         THEN rejected("no_line_items", <<"validate", "lookup", "parse">>)
         ELSE The({render(f, tax_rate.val, invoice_date, The(supplier), items,
                          tax_amount) :
                      tax_amount \in {tax_amount_of(items.subtotal,
                                                    tax_rate.val)}}) :
            tax_rate \in {PyFloat(f.tax_rate)},
            invoice_date \in {strptime(f.invoice_date)},
            supplier \in {fetchone(table, f.supplier_id)},
            items \in {parse_line_items(f.payload)}})

\* A variant of write_pdf that leaves a file of the same name in place
write_pdf_beside(files, name, content) ==
    files \cup {[name |-> name, content |-> content]}

\* write_pdf(filepath): the file of that name is created or replaced
write_pdf(files, name, content) ==
    {file \in files : file.name # name} \cup {[name |-> name, content |-> content]}

(***************************************************************************)
(* The forms submitted                                                     *)
(***************************************************************************)
T_Acme == <<"A", "c", "m", "e">>
T_rate3 == <<"3", ".", "0", "0">>
T_leap_day == <<"2", "0", "2", "4", "-", "0", "2", "-", "2", "9">>
T_no_such_day == <<"2", "0", "2", "3", "-", "0", "2", "-", "2", "9">>

\* spec.md section 8: Rent 500, and a row 2 with no description
P_rent ==
    RowEntries(<<"0">>, <<T_Rent>>, <<<<"5", "0", "0">>>>)
    \o RowEntries(<<"2">>, <<<<>>>>, <<<<"1", "0">>>>)
P_thousand == RowEntries(<<"0">>, <<T_Rent>>, <<<<"1", "0", "0", "0">>>>)
P_invalid ==
    RowEntries(<<"0">>, <<<<" ">>>>, <<<<"5">>>>)
    \o RowEntries(<<"1">>, <<T_Rent>>, <<<<"0">>>>)
P_notes == <<Entry(T_notes, T_Rent)>>
P_abc == P_rent \o <<Entry(Key(T_abc, T_amount), <<"5">>)>>

BaseForm ==
    [supplier_id |-> <<"1">>, invoice_number |-> <<"7">>,
     invoice_date |-> T_leap_day, tax_rate |-> T_rate3, payload |-> P_rent]

Forms ==
    {BaseForm,
     [BaseForm EXCEPT !.payload = P_thousand],
     [BaseForm EXCEPT !.invoice_number = T_2024_05],
     [BaseForm EXCEPT !.supplier_id = <<"2">>],
     [BaseForm EXCEPT !.payload = <<>>],
     [BaseForm EXCEPT !.payload = P_invalid],
     [BaseForm EXCEPT !.payload = P_abc],
     [BaseForm EXCEPT !.tax_rate = T_abc],
     [BaseForm EXCEPT !.invoice_date = T_no_such_day, !.payload = <<>>],
     [BaseForm EXCEPT !.supplier_id = <<>>],
     [BaseForm EXCEPT !.tax_rate = <<>>, !.payload = P_notes]}

\* the names the suppliers are added under, in order
SupplierNames == <<T_AcmeCo, T_Acme, T_Rent>>

Init ==
    /\ suppliers = {}
    /\ store = {}
    /\ pc = [r \in Requests |-> "idle"]
    /\ form = [r \in Requests |-> <<>>]
    /\ outcome = [r \in Requests |-> <<>>]
    /\ invoice = [r \in Requests |-> <<>>]
    /\ submitted = 0
    /\ writes = <<>>
    /\ payload = <<>> /\ variant = <<>> /\ parsed = <<>> /\ parsed_variant = <<>>
    /\ calc_in = <<>> /\ calc_out = <<>> /\ name_in = <<>> /\ name_out = <<>>

Unused ==
    UNCHANGED <<payload, variant, parsed, parsed_variant, calc_in, calc_out,
                name_in, name_out>>

\* app.py 109-142: add_supplier inserts a row under the next id
AddSupplier ==
    /\ Cardinality(suppliers) < MaxSuppliers
    /\ suppliers' = suppliers \cup
           {[id |-> <<Digits[Cardinality(suppliers) + 2]>>,
             name |-> SupplierNames[Cardinality(suppliers) + 1]]}
    /\ UNCHANGED <<store, pc, form, outcome, invoice, submitted, writes>>
    /\ Unused

\* app.py 176-287: a thread takes a POST of form f and runs generate_invoice
\* up to the call of write_pdf
Generate(r, f) ==
    /\ pc[r] \in {"idle", "done"}
    /\ submitted < MaxSubmits
    /\ submitted' = submitted + 1
    /\ form' = [form EXCEPT ![r] = <<f>>]
    /\ \E g \in {generate_invoice(f, suppliers)} :
           /\ outcome' = [outcome EXCEPT ![r] = <<g>>]
           /\ invoice' = [invoice EXCEPT ![r] = g.rendered]
           /\ pc' = [pc EXCEPT ![r] =
                        IF g.outcome = "render" THEN "rendered" ELSE "done"]
    /\ UNCHANGED <<suppliers, store, writes>>
    /\ Unused

\* Another request is between its render and its write of the same filename
overlapping(r) ==
    \E q \in Requests \ {r} :
        /\ pc[q] = "rendered"
        /\ outcome[q][1].filename = outcome[r][1].filename

\* app.py 289-293: write_pdf succeeds
WritePdf(r) ==
    /\ pc[r] = "rendered"
    /\ store' = write_pdf(store, outcome[r][1].filename, invoice[r][1])
    /\ writes' = Append(writes, [req |-> r, form |-> form[r][1],
                                 name |-> outcome[r][1].filename,
                                 content |-> invoice[r][1],
                                 overlaps |-> overlapping(r)])
    /\ outcome' = [outcome EXCEPT ![r][1].outcome = "success",
                                  ![r][1].steps = @ \o <<"write">>]
    /\ pc' = [pc EXCEPT ![r] = "done"]
    /\ UNCHANGED <<suppliers, form, invoice, submitted>>
    /\ Unused

\* app.py 294-296: write_pdf raises before it writes, and the error is flashed
WritePdfFails(r) ==
    /\ pc[r] = "rendered"
    /\ outcome' = [outcome EXCEPT ![r][1].outcome = "write_error"]
    /\ pc' = [pc EXCEPT ![r] = "done"]
    /\ UNCHANGED <<suppliers, store, form, invoice, submitted, writes>>
    /\ Unused

Next ==
    \/ AddSupplier
    \/ \E r \in Requests, f \in Forms : Generate(r, f)
    \/ \E r \in Requests : WritePdf(r)
    \/ \E r \in Requests : WritePdfFails(r)

Spec == Init /\ [][Next]_vars

(***************************************************************************)
(* Properties of the application                                           *)
(***************************************************************************)
Range(q) == {q[i] : i \in 1..Len(q)}

Finished(r) == outcome[r] # <<>>

\* the line-item sequence the payload of form f yields
ItemsOf(f) == parse_line_items(f.payload)

\* the request passed what generate_invoice checks before the line items:
\* its fields are present and well formed, and its supplier was found
PassedValidation(f, g) ==
    /\ \A x \in {f.supplier_id, f.invoice_number, f.invoice_date, f.tax_rate} :
          x # <<>>
    /\ f.tax_rate # T_abc
    /\ f.invoice_date # T_no_such_day
    /\ g.outcome # "supplier_not_found"

RejectedBeforeComputation ==
    \A r \in Requests : Finished(r) =>
        LET f == form[r][1]
            g == outcome[r][1]
        IN  /\ (\/ f.tax_rate \in {<<>>, T_abc}
                \/ f.invoice_date \in {<<>>, T_no_such_day}
                \/ f.supplier_id = <<>>
                \/ f.invoice_number = <<>>) =>
                   /\ g.outcome \in {"missing_fields", "invalid_format"}
                   /\ g.steps = <<"validate">>
            /\ g.outcome \in {"missing_fields", "invalid_format",
                              "supplier_not_found", "no_line_items"} =>
                   /\ invoice[r] = <<>>
                   /\ Range(g.steps) \cap {"totals", "render", "write"} = {}

\* the step part of C8: the folder changes only in the write of a request
\* that was rendered, never in a step that rejects one
RejectionLeavesFolder ==
    store' # store =>
        \E r \in Requests :
            /\ pc[r] = "rendered" /\ pc'[r] = "done"
            /\ outcome[r][1].outcome = "render"
            /\ outcome'[r][1].outcome = "success"

\* C8: a tax rate that is no number, a date that is no calendar date or a
\* missing field rejects the request before supplier lookup, line-item parsing
\* and totals; no rejected request renders an invoice record or changes the
\* files of the invoice folder.
C8_ValidationAbortsTheRequest ==
    []RejectedBeforeComputation /\ [][RejectionLeavesFolder]_vars

\* C8 witness: a request with a known supplier and a valid row but a tax rate
\* of "abc" was rejected while the folder held an earlier invoice
C8_Witness ==
    /\ store # {}
    /\ \E r \in Requests :
          /\ Finished(r)
          /\ form[r][1] = [BaseForm EXCEPT !.tax_rate = T_abc]
          /\ outcome[r][1].outcome = "invalid_format"

\* the index of the last write under a name
LastWrite(name) ==
    CHOOSE i \in 1..Len(writes) :
        /\ writes[i].name = name
        /\ \A j \in (i + 1)..Len(writes) : writes[j].name # name

\* C10: every write is by a request that passed all validations, at the path
\* of its derived filename; the folder holds one file per name written, never
\* two of the same name, and its content is that of the last writer.
C10_OneFilePerNameLastWriterWins ==
    /\ \A i \in 1..Len(writes) :
          LET g == generate_invoice(writes[i].form, suppliers)
          IN  /\ g.outcome = "render"
              /\ writes[i].name = g.filename
              /\ <<writes[i].content>> = g.rendered
    /\ \A a, b \in store : a.name = b.name => a = b
    /\ {file.name : file \in store} = {writes[i].name : i \in 1..Len(writes)}
    /\ \A file \in store : file.content = writes[LastWrite(file.name)].content
    /\ \A r \in Requests :
          Finished(r) /\ outcome[r][1].outcome = "success" =>
              \E i \in 1..Len(writes) :
                  /\ writes[i].req = r
                  /\ writes[i].form = form[r][1]

\* C10 witness: two overlapping requests wrote different invoices under one
\* name, and the folder holds the second
C10_Witness ==
    /\ Len(writes) = 2
    /\ writes[1].overlaps
    /\ writes[1].name = writes[2].name
    /\ writes[1].content # writes[2].content
    /\ store = {[name |-> writes[2].name, content |-> writes[2].content]}

====
